---- MODULE Spec2Model ----
(***************************************************************************)
(* randomgames.py: random two-player zero-sum game trees and their         *)
(* solution by backward induction.                                         *)
(*                                                                         *)
(* Python objects live in heaps indexed by handle: `nodes` holds the Node  *)
(* objects that are alive, `games` every TwoPlayerGame the caller holds.   *)
(* A handle is the object's identity; Node.nodeid is a separate field.     *)
(* Objects nothing refers to any more are released, as CPython does, and   *)
(* the remaining handles are renumbered in allocation order.               *)
(* The random draws of numpy are nondeterministic choices.                 *)
(*                                                                         *)
(* The caller constructs one game, may take one branch view of it, may     *)
(* create one GameRootNode of its own, and calls generate, solve,          *)
(* print_solution_path and valuemap on what it holds in any order.         *)
(***************************************************************************)
EXTENDS Integers, Sequences, FiniteSets, TLC

VARIABLES nodes, nodeid, games, nonpayoff, last

vars == <<nodes, nodeid, games, nonpayoff, last>>

\* ---------------------------------------------------------------- bounds
MaxObjs == 5          \* Node objects alive at one time
MaxDepth == 2         \* largest maxdepth a caller passes
MaxActions == 2       \* the maxactions a caller passes
MaxPayoffs == 2       \* the maxpayoffs a caller passes

\* Node.nodeid and num_nodes grow with every node created; they are let to
\* reach what the largest heap needs
MaxNodeId == MaxObjs
MaxNumNodes == MaxObjs

\* ------------------------------------------------------ program constants
NaN == 99                 \* np.nan (no float in TLA+; never a payoff or an index)
DefaultMaxDepth == 10     \* defaults of TwoPlayerGame.__init__, used by branch()
DefaultMinActions == 0
DefaultMaxActions == 99
DefaultMinPayoffs == 2
DefaultMaxPayoffs == 99

\* the arguments a caller passes
GenerateArgs == BOOLEAN
MinActionsArgs == {DefaultMinActions}
MaxActionsArgs == {MaxActions}
MinPayoffsArgs == {1}
MaxPayoffsArgs == 1..MaxPayoffs
TiesArgs == {FALSE}

\* ---------------------------------------------------------------- helpers
Min2(a, b) == IF a < b THEN a ELSE b
Max2(a, b) == IF a > b THEN a ELSE b

\* np.clip(a, lo, hi) = minimum(maximum(a, lo), hi)
clip(a, lo, hi) == Min2(Max2(a, lo), hi)

\* np.random.poisson(lam): any natural number; draws above every clip
\* maximum are clipped to the same count
poisson == 0..(Max2(MaxActions, MaxPayoffs) + 1)

\* opts of reproduce_payoffs
opts(ties) == IF ties THEN {-1, 0, 1} ELSE {-1, 1}

\* ------------------------------------------------------------ constructors
\* ActionNode(parent, player) allocated at handle h with Node.nodeid = nid
ActionNode(h, parent, player, nid, ns) ==
    [kind |-> "ActionNode", parent |-> parent,
     depth |-> IF parent = h THEN 0 ELSE ns[parent].depth + 1,
     children |-> <<>>, nodeid |-> nid, player |-> player,
     decision |-> NaN, value |-> <<NaN, NaN>>]

\* GameRootNode(): parent = self, player = 0
GameRootNode(h, nid, ns) == ActionNode(h, h, 0, nid, ns)

\* PayOffNode(parent, payoff): the heap after the constructor ran; the
\* constructor also overwrites parent.children with [self]
PayOffNode(ns, parent, payoff, nid) ==
    LET h == Len(ns) + 1
        self == [kind |-> "PayOffNode", parent |-> parent,
                 depth |-> ns[parent].depth + 1, children |-> <<>>,
                 nodeid |-> nid, payoff |-> payoff, selected |-> NaN]
    IN  [Append(ns, self) EXCEPT ![parent].children = <<h>>]

\* ------------------------------------------------------------------- Init
\* The default argument root=GameRootNode() is evaluated once, when the
\* class body runs: it takes nodeid 0 and leaves Node.nodeid = 1.
NoCall == [op |-> "import", game |-> 0, arg |-> 0, err |-> "none",
           visited |-> 0, again |-> FALSE, ret |-> <<>>]

Init ==
    /\ nodes = <<GameRootNode(1, 0, <<>>)>>
    /\ nodeid = 1
    /\ games = <<>>
    /\ nonpayoff = <<>>
    /\ last = NoCall

Idle == nonpayoff = <<>>

\* the nodes of the tree rooted at h
RECURSIVE Subtree(_, _)
Subtree(ns, h) ==
    {h} \cup UNION {Subtree(ns, ns[h].children[i]) : i \in 1..Len(ns[h].children)}

\* a node and the chain of parents above it
RECURSIVE Ancestors(_, _)
Ancestors(ns, h) ==
    IF ns[h].parent = h THEN {h} ELSE {h} \cup Ancestors(ns, ns[h].parent)

Range(f) == {f[i] : i \in DOMAIN f}

\* the objects something still refers to: the root objects (the default
\* argument and the caller's), the games' roots and the worklist, whatever
\* their parent fields reach, and the trees below all of these
Live(ns, gs, wl) ==
    LET held == {h \in 1..Len(ns) : ns[h].parent = h}
                  \cup {gs[g].root : g \in 1..Len(gs)} \cup Range(wl)
        up == UNION {Ancestors(ns, h) : h \in held}
    IN  UNION {Subtree(ns, h) : h \in up}

\* the heap once the objects that self.children = [...] dropped are gone
release(ns, gs, wl) ==
    LET live == Live(ns, gs, wl)
        to(h) == Cardinality({k \in live : k <= h})
        from(i) == CHOOSE h \in live : to(h) = i
    IN  [nodes |-> [i \in 1..Cardinality(live) |->
                      [ns[from(i)] EXCEPT
                          !.parent = to(@),
                          !.children = [j \in 1..Len(@) |-> to(@[j])]]],
         games |-> [g \in 1..Len(gs) |-> [gs[g] EXCEPT !.root = to(@)]],
         nonpayoff |-> [j \in 1..Len(wl) |-> to(wl[j])]]

\* the call record left by an operation
Call(op, g, arg, err, visited, again, ret) ==
    [op |-> op, game |-> g, arg |-> arg, err |-> err,
     visited |-> visited, again |-> again, ret |-> ret]

\* ---------------------------------------------------------------- Node
\* Node.set_nodeid(value)
set_nodeid(value) == value

\* is_root(): parent == self
is_root(h) == nodes[h].parent = h

\* the caller runs GameRootNode() and keeps the object, to pass it as root
NewRoot ==
    /\ Idle
    /\ games = <<>>
    /\ Len(nodes) < MaxObjs
    /\ nodeid < MaxNodeId
    /\ \A h \in 1..Len(nodes) : is_root(h) => h = 1     \* its first
    /\ nodes' = Append(nodes, GameRootNode(Len(nodes) + 1, nodeid, nodes))
    /\ nodeid' = nodeid + 1
    /\ last' = Call("GameRootNode", 0, 0, "none", 0, FALSE, <<>>)
    /\ UNCHANGED <<games, nonpayoff>>

\* ------------------------------------------------------------ reproduction
\* ActionNode.reproduce_actions with the clipped draw nchildren: the heap
\* and Node.nodeid after the list comprehension and the assignment
reproduce_actions(ns, nid, node, nchildren) ==
    LET next_player == (ns[node].player + 1) % 2
        base == Len(ns)
        created == [i \in 1..nchildren |->
                       ActionNode(base + i, node, next_player, nid + i - 1, ns)]
    IN  [nodes |-> [(ns \o created) EXCEPT
                       ![node].children = [i \in 1..nchildren |-> base + i]],
         nodeid |-> nid + nchildren]

\* the list comprehension [PayOffNode(self, (-v, v)) for v in payoffs0]
RECURSIVE payoff_comprehension(_, _, _, _, _)
payoff_comprehension(ns, nid, node, payoffs0, i) ==
    IF i > Len(payoffs0) THEN ns
    ELSE payoff_comprehension(
             PayOffNode(ns, node, <<0 - payoffs0[i], payoffs0[i]>>, nid + i - 1),
             nid, node, payoffs0, i + 1)

\* ActionNode.reproduce_payoffs with the drawn payoffs0 (nchild = its length)
reproduce_payoffs(ns, nid, node, payoffs0) ==
    LET base == Len(ns)
        built == payoff_comprehension(ns, nid, node, payoffs0, 1)
    IN  [nodes |-> [built EXCEPT
                       ![node].children = [i \in 1..Len(payoffs0) |-> base + i]],
         nodeid |-> nid + Len(payoffs0)]

\* ---------------------------------------------------------- TwoPlayerGame
\* most Node objects one run of generate() can create below a node at `depth`
RECURSIVE WorstNew(_, _, _, _)
WorstNew(depth, maxdepth, maxactions, maxpayoffs) ==
    IF depth < maxdepth - 1
    THEN maxactions * (1 + WorstNew(depth + 1, maxdepth, maxactions, maxpayoffs))
    ELSE maxpayoffs

\* the bounds can hold whatever generate() builds from `root` with these
\* parameters, once the children `root` has now are dropped
Fits(root, maxdepth, maxactions, maxpayoffs, num_nodes, nid) ==
    /\ maxdepth <= MaxDepth
    /\ maxactions <= MaxActions
    /\ maxpayoffs <= MaxPayoffs
    /\ LET worst == WorstNew(nodes[root].depth, maxdepth, maxactions, maxpayoffs)
           kept == Live([nodes EXCEPT ![root].children = <<>>], games, <<>>)
       IN  /\ Cardinality(kept) + worst <= MaxObjs
           /\ nid + worst <= MaxNodeId
           /\ num_nodes + worst <= MaxNumNodes

\* __init__ that forgets to count the root
NewGame_uncounted(root, maxdepth, minactions, maxactions, minpayoffs, maxpayoffs, ties) ==
    [root |-> root, maxdepth |-> maxdepth,
     minactions |-> minactions, maxactions |-> maxactions,
     minpayoffs |-> minpayoffs, maxpayoffs |-> maxpayoffs,
     ties |-> ties, solved |-> FALSE, num_nodes |-> 0]

\* the fields __init__ stores
NewGame(root, maxdepth, minactions, maxactions, minpayoffs, maxpayoffs, ties) ==
    [root |-> root, maxdepth |-> maxdepth,
     minactions |-> minactions, maxactions |-> maxactions,
     minpayoffs |-> minpayoffs, maxpayoffs |-> maxpayoffs,
     ties |-> ties, solved |-> FALSE, num_nodes |-> 1]

\* TwoPlayerGame(root, maxdepth, generate, minactions, ..., ties) called by
\* the user; with generate=True the call continues in GenStep
Construct(root, maxdepth, generate, minactions, maxactions, minpayoffs, maxpayoffs, ties) ==
    /\ Idle
    /\ games = <<>>
    /\ is_root(root)
    /\ generate => Fits(root, maxdepth, maxactions, maxpayoffs, 1, 1)
    /\ nodeid' = set_nodeid(1)
    /\ games' = Append(games, NewGame(root, maxdepth, minactions, maxactions,
                                      minpayoffs, maxpayoffs, ties))
    /\ nonpayoff' = IF generate THEN <<root>> ELSE <<>>
    /\ last' = Call("construct", Len(games) + 1, IF generate THEN 1 ELSE 0,
                    "none", 0, FALSE, <<>>)
    /\ UNCHANGED nodes

\* game.generate() called by the user on an existing game
Generate(g) ==
    /\ Idle
    /\ nodes[games[g].root].kind = "ActionNode"
    /\ Fits(games[g].root, games[g].maxdepth, games[g].maxactions,
            games[g].maxpayoffs, games[g].num_nodes, nodeid)
    /\ nonpayoff' = <<games[g].root>>
    /\ last' = Call("generate", g, 0, "none", 0, FALSE, <<>>)
    /\ UNCHANGED <<nodes, nodeid, games>>

\* what list.pop() leaves of the list
pop_keep(l) == l

pop(l) == SubSeq(l, 1, Len(l) - 1)

\* one iteration of the while loop of generate(), with its random draws
GenStep ==
    /\ ~Idle
    /\ LET g == last.game
           G == games[g]
           node == nonpayoff[Len(nonpayoff)]
           popped == pop(nonpayoff)
       IN  IF nodes[node].depth < G.maxdepth - 1
           THEN \E draw \in poisson :
                  LET nchildren == clip(draw, G.minactions, G.maxactions)
                      r == reproduce_actions(nodes, nodeid, node, nchildren)
                      children == r.nodes[node].children
                      h == release(r.nodes,
                                   [games EXCEPT ![g].num_nodes = @ + Len(children)],
                                   IF Len(children) > 0 THEN popped \o children
                                                        ELSE popped)
                  IN  /\ Len(h.nodes) <= MaxObjs
                      /\ r.nodeid <= MaxNodeId
                      /\ h.games[g].num_nodes <= MaxNumNodes
                      /\ nodes' = h.nodes
                      /\ nodeid' = r.nodeid
                      /\ nonpayoff' = h.nonpayoff
                      /\ games' = h.games
           ELSE \E draw \in poisson :
                  LET nchild == clip(draw, G.minpayoffs, G.maxpayoffs)
                  IN  \E payoffs0 \in [1..nchild -> opts(G.ties)] :
                        LET r == reproduce_payoffs(nodes, nodeid, node, payoffs0)
                            children == r.nodes[node].children
                            h == release(r.nodes,
                                         [games EXCEPT
                                             ![g].num_nodes = @ + Len(children)],
                                         popped)
                        IN  /\ Len(h.nodes) <= MaxObjs
                            /\ r.nodeid <= MaxNodeId
                            /\ h.games[g].num_nodes <= MaxNumNodes
                            /\ nodes' = h.nodes
                            /\ nodeid' = r.nodeid
                            /\ nonpayoff' = h.nonpayoff
                            /\ games' = h.games
    /\ UNCHANGED last

\* game.branch(node) called by the user
branch(g, node) ==
    /\ Idle
    /\ Len(games) = 1
    /\ node \in Subtree(nodes, games[g].root)
    /\ nodeid' = set_nodeid(1)
    /\ games' = Append(games, NewGame(node, DefaultMaxDepth, DefaultMinActions,
                                      DefaultMaxActions, DefaultMinPayoffs,
                                      DefaultMaxPayoffs, FALSE))
    /\ last' = Call("branch", Len(games) + 1, 0, "none", 0, FALSE, <<>>)
    /\ UNCHANGED <<nodes, nonpayoff>>

\* ------------------------------------------------------------------ solve
\* np.argmax over a list: the scan keeps the first largest entry and stops at
\* the first nan; the index is 0-based
RECURSIVE argmax_scan(_, _, _)
\* a scan that keeps the last largest entry
argmax_scan_last(xs, i, mp) ==
    IF i > Len(xs) \/ xs[mp] = NaN THEN mp - 1
    ELSE argmax_scan(xs, i + 1,
                     IF xs[i] = NaN \/ xs[i] >= xs[mp] THEN i ELSE mp)

argmax_scan(xs, i, mp) ==
    IF i > Len(xs) \/ xs[mp] = NaN THEN mp - 1
    ELSE argmax_scan(xs, i + 1,
                     IF xs[i] = NaN \/ xs[i] > xs[mp] THEN i ELSE mp)

argmax(xs) == argmax_scan(xs, 2, 1)

\* the for loop of solve() from child i on, and solve() on the subgame
\* rooted at `root`; both give the heap, Node.nodeid and the error raised
RECURSIVE solve(_, _, _), solve_children(_, _, _, _, _)
\* a loop that reads child.value before the subgame is solved
solve_children_stale(ns, nid, children, i, child_value) ==
    IF i > Len(children)
    THEN [nodes |-> ns, nodeid |-> nid, err |-> "none", child_value |-> child_value]
    ELSE LET child == children[i]
         IN  IF ns[child].kind = "PayOffNode"
             THEN solve_children(ns, nid, children, i + 1,
                                 Append(child_value, ns[child].payoff))
             ELSE LET child_subgame == solve(ns, set_nodeid(1), child)
                      subgame_value == ns[child].value
                  IN  IF child_subgame.err # "none"
                      THEN [nodes |-> child_subgame.nodes,
                            nodeid |-> child_subgame.nodeid,
                            err |-> child_subgame.err,
                            child_value |-> child_value]
                      ELSE solve_children(child_subgame.nodes,
                                          child_subgame.nodeid, children, i + 1,
                                          Append(child_value, subgame_value))

solve_children(ns, nid, children, i, child_value) ==
    IF i > Len(children)
    THEN [nodes |-> ns, nodeid |-> nid, err |-> "none", child_value |-> child_value]
    ELSE LET child == children[i]
         IN  IF ns[child].kind = "PayOffNode"
             THEN solve_children(ns, nid, children, i + 1,
                                 Append(child_value, ns[child].payoff))
             ELSE \* self.branch(child) runs __init__, which resets Node.nodeid
                  LET child_subgame == solve(ns, set_nodeid(1), child)
                      subgame_value == child_subgame.nodes[child].value
                  IN  IF child_subgame.err # "none"
                      THEN [nodes |-> child_subgame.nodes,
                            nodeid |-> child_subgame.nodeid,
                            err |-> child_subgame.err,
                            child_value |-> child_value]
                      ELSE solve_children(child_subgame.nodes,
                                          child_subgame.nodeid, children, i + 1,
                                          Append(child_value, subgame_value))

solve(ns, nid, root) ==
    IF ns[root].kind # "ActionNode"
    THEN [nodes |-> ns, nodeid |-> nid, err |-> "none"]
    ELSE LET player == ns[root].player
             r == solve_children(ns, nid, ns[root].children, 1, <<>>)
             cv == r.child_value
         IN  IF r.err # "none"
             THEN [nodes |-> r.nodes, nodeid |-> r.nodeid, err |-> r.err]
             ELSE IF cv = <<>>
             THEN \* np.argmax([]): attempt to get argmax of an empty sequence
                  [nodes |-> r.nodes, nodeid |-> r.nodeid, err |-> "ValueError"]
             ELSE LET decision == argmax([i \in 1..Len(cv) |-> cv[i][player + 1]])
                  IN  [nodes |-> [r.nodes EXCEPT
                                     ![root].decision = decision,
                                     ![root].value = cv[decision + 1]],
                       nodeid |-> r.nodeid, err |-> "none"]

\* game.solve() called by the user
Solve(g) ==
    /\ Idle
    /\ LET r == solve(nodes, nodeid, games[g].root)
       IN  /\ nodes' = r.nodes
           /\ nodeid' = r.nodeid
           /\ games' = IF r.err = "none" THEN [games EXCEPT ![g].solved = TRUE]
                       ELSE games
           /\ last' = Call("solve", g, 0, r.err, 0,
                           r.err = "none" /\ last.op = "solve" /\ last.game = g
                               /\ last.err = "none",
                           <<>>)
    /\ UNCHANGED nonpayoff

\* ----------------------------------------------------- print_solution_path
\* the while loop: the error raised and the number of nodes visited
RECURSIVE follow_decisions(_, _)
follow_decisions(node, visited) ==
    IF nodes[node].kind = "PayOffNode" THEN [err |-> "none", visited |-> visited]
    ELSE LET decision == nodes[node].decision
         IN  IF decision = NaN
             THEN [err |-> "TypeError", visited |-> visited]
             ELSE IF decision >= Len(nodes[node].children)
             THEN [err |-> "IndexError", visited |-> visited]
             ELSE follow_decisions(nodes[node].children[decision + 1], visited + 1)

\* print_solution_path() without its assert
print_solution_path_unchecked(g) == follow_decisions(games[g].root, 1)

print_solution_path_run(g) ==
    IF ~games[g].solved THEN [err |-> "AssertionError", visited |-> 0]
    ELSE follow_decisions(games[g].root, 1)

\* game.print_solution_path() called by the user
print_solution_path(g) ==
    /\ Idle
    /\ LET r == print_solution_path_run(g)
       IN  last' = Call("print_solution_path", g, 0, r.err, r.visited, FALSE, <<>>)
    /\ UNCHANGED <<nodes, nodeid, games, nonpayoff>>

\* ---------------------------------------------------------------- valuemap
\* valuemap[key] = v on a dict
setitem(d, key, v) == [k \in DOMAIN d \cup {key} |-> IF k = key THEN v ELSE d[k]]

\* the while loop of valuemap()
RECURSIVE visit(_, _, _, _)
visit(to_visit, d, playerid, visited) ==
    IF Len(to_visit) = 0 THEN [err |-> "none", visited |-> visited, ret |-> d]
    ELSE LET curr == to_visit[Len(to_visit)]
             popped == pop(to_visit)
         IN  visit(popped \o nodes[curr].children,
                   setitem(d, nodes[curr].nodeid,
                           IF nodes[curr].kind = "PayOffNode"
                           THEN nodes[curr].payoff[playerid + 1]
                           ELSE nodes[curr].value[playerid + 1]),
                   playerid, visited + 1)

valuemap_run(g, playerid) ==
    LET curr == games[g].root
    IN  IF ~games[g].solved
        THEN [err |-> "AssertionError", visited |-> 0, ret |-> <<>>]
        ELSE IF nodes[curr].kind = "PayOffNode"
        THEN \* curr.value: a PayOffNode has no attribute value
             [err |-> "AttributeError", visited |-> 1, ret |-> <<>>]
        ELSE visit(nodes[curr].children,
                   setitem(<<>>, nodes[curr].nodeid, nodes[curr].value[playerid + 1]),
                   playerid, 1)

\* game.valuemap(playerid) called by the user
valuemap(g, playerid) ==
    /\ Idle
    /\ LET r == valuemap_run(g, playerid)
       IN  last' = Call("valuemap", g, playerid, r.err, r.visited, FALSE, r.ret)
    /\ UNCHANGED <<nodes, nodeid, games, nonpayoff>>

\* ------------------------------------------------------------------- Next
Next ==
    \/ NewRoot
    \/ \E root \in 1..Len(nodes), maxdepth \in 1..MaxDepth, generate \in GenerateArgs,
          minactions \in MinActionsArgs, maxactions \in MaxActionsArgs,
          minpayoffs \in MinPayoffsArgs, maxpayoffs \in MaxPayoffsArgs, ties \in TiesArgs :
          Construct(root, maxdepth, generate, minactions, maxactions,
                    minpayoffs, maxpayoffs, ties)
    \/ \E g \in 1..Len(games) : Generate(g)
    \/ GenStep
    \/ \E g \in 1..Len(games), node \in 1..Len(nodes) : branch(g, node)
    \/ \E g \in 1..Len(games) : Solve(g)
    \/ \E g \in 1..Len(games) : print_solution_path(g)
    \/ \E g \in 1..Len(games), playerid \in {0, 1} : valuemap(g, playerid)

Spec == Init /\ [][Next]_vars

\* The calls that build trees, for the termination of generate(): the loop of
\* generate() is not interrupted, so it keeps iterating while it can.
NextGenerate ==
    \/ NewRoot
    \/ \E root \in 1..Len(nodes), maxdepth \in 1..MaxDepth, generate \in GenerateArgs,
          minactions \in MinActionsArgs, maxactions \in MaxActionsArgs,
          minpayoffs \in MinPayoffsArgs, maxpayoffs \in MaxPayoffsArgs, ties \in TiesArgs :
          Construct(root, maxdepth, generate, minactions, maxactions,
                    minpayoffs, maxpayoffs, ties)
    \/ \E g \in 1..Len(games) : Generate(g)
    \/ GenStep

FairSpec == Init /\ [][NextGenerate]_vars /\ WF_vars(GenStep)

\* ================================================================ claims
\* the value of a node as its parent sees it
val(h) == IF nodes[h].kind = "PayOffNode" THEN nodes[h].payoff ELSE nodes[h].value

\* the decision nodes of the tree of game g
ActionNodes(g) ==
    {n \in Subtree(nodes, games[g].root) : nodes[n].kind = "ActionNode"}

\* generate() has just run to completion on game last.game
Generated ==
    /\ Idle
    /\ \/ last.op = "construct" /\ last.arg = 1
       \/ last.op = "generate"

\* decision and value of node n agree with its children
Consistent(n) ==
    LET kids == nodes[n].children
        d == nodes[n].decision
    IN  /\ d \in 0..(Len(kids) - 1)
        /\ nodes[n].value = val(kids[d + 1])

\* C1: after solve() completes, every decision node of the tree stores as
\* decision the smallest child index that maximizes the child's value for the
\* acting player, and as value the value of that child; so no child is worth
\* more to the acting player than the stored value.
C1_SolveOptimal ==
    (last.op = "solve" /\ last.err = "none") =>
        \A n \in ActionNodes(last.game) :
            LET kids == nodes[n].children
                p == nodes[n].player + 1
                d == nodes[n].decision
            IN  /\ Consistent(n)
                /\ \A i \in 1..Len(kids) : val(kids[i])[p] <= nodes[n].value[p]
                /\ \A i \in 1..d : val(kids[i])[p] < nodes[n].value[p]

\* a solved tree whose root chose between two subgames of equal value
C1_Witness ==
    /\ last.op = "solve" /\ last.err = "none"
    /\ LET root == games[last.game].root
           kids == nodes[root].children
       IN  /\ nodes[root].kind = "ActionNode"
           /\ Len(kids) = 2
           /\ \A i \in 1..2 : nodes[kids[i]].kind = "ActionNode"
           /\ nodes[kids[1]].value = nodes[kids[2]].value
           /\ nodes[root].decision = 0

\* C2: when generate() has emptied its worklist, every node of the tree
\* without children is a PayOffNode.
C2_LeavesArePayoffs ==
    Generated =>
        \A n \in Subtree(nodes, games[last.game].root) :
            nodes[n].children = <<>> => nodes[n].kind = "PayOffNode"

\* C3: solve() on a tree with a childless decision node fails with the
\* solver's own error for that node and does not leave the game marked solved.
C3_DegenerateExplicit ==
    (last.op = "solve" /\ \E n \in ActionNodes(last.game) : nodes[n].children = <<>>)
        => (last.err = "DegenerateNodeError" /\ ~games[last.game].solved)

\* C4: print_solution_path() and valuemap(playerid) on a game that is not
\* solved fail at once with the assertion error, visit no node and change no
\* field of any node or game.
C4_UnsolvedQueriesFail ==
    [][\A g \in 1..Len(games) :
          (/\ ~games[g].solved
           /\ \/ print_solution_path(g)
              \/ \E playerid \in {0, 1} : valuemap(g, playerid))
          => (/\ last'.err = "AssertionError"
              /\ last'.visited = 0
              /\ UNCHANGED <<nodes, nodeid, games, nonpayoff>>)]_vars

\* print_solution_path() was refused on an unsolved game with a generated tree
C4_Witness ==
    /\ last.op = "print_solution_path"
    /\ last.err = "AssertionError"
    /\ ~games[last.game].solved
    /\ nodes[games[last.game].root].children # <<>>

\* C5: branch(node) leaves the node id counter alone, and after a generation
\* run the nodes of the game's tree, root included, have pairwise distinct ids.
C5_IdsDistinct ==
    /\ [](Generated =>
            \A a, b \in Subtree(nodes, games[last.game].root) :
                a # b => nodes[a].nodeid # nodes[b].nodeid)
    /\ [][(\E g \in 1..Len(games), node \in 1..Len(nodes) : branch(g, node))
              => nodeid' = nodeid]_vars

\* C6: valuemap(playerid) on a solved game returns one entry per node of the
\* tree, keyed by node id, holding payoff[playerid] of a PayOffNode and
\* value[playerid] of a decision node, whatever the kind of the root.
C6_ValueMapComplete ==
    (last.op = "valuemap" /\ games[last.game].solved) =>
        LET tree == Subtree(nodes, games[last.game].root)
        IN  /\ last.err = "none"
            /\ DOMAIN last.ret = {nodes[n].nodeid : n \in tree}
            /\ Cardinality(DOMAIN last.ret) = Cardinality(tree)
            /\ \A n \in tree : last.ret[nodes[n].nodeid] = val(n)[last.arg + 1]

\* C7: after TwoPlayerGame(..., generate=True) num_nodes is the number of
\* nodes of the tree rooted at the game's root.
C7_NumNodesCountsTree ==
    (Idle /\ last.op = "construct" /\ last.arg = 1) =>
        games[last.game].num_nodes
            = Cardinality(Subtree(nodes, games[last.game].root))

\* a constructed game whose tree has decision nodes and payoffs below the root
C7_Witness ==
    /\ Idle /\ last.op = "construct" /\ last.arg = 1
    /\ games[last.game].num_nodes >= 4
    /\ \E n \in Subtree(nodes, games[last.game].root) : nodes[n].depth = 2

\* C8: a second solve() right after a completed solve() of the same game
\* changes no decision and no value.
C8_SolveIdempotent ==
    [][(last'.op = "solve" /\ last'.again) => nodes' = nodes]_vars

\* solve() ran twice in a row on a tree with subgames below the root
C8_Witness ==
    /\ last.op = "solve" /\ last.again
    /\ LET root == games[last.game].root
       IN  /\ nodes[root].kind = "ActionNode"
           /\ \E i \in 1..Len(nodes[root].children) :
                 /\ nodes[nodes[root].children[i]].kind = "ActionNode"
                 /\ nodes[nodes[root].children[i]].children # <<>>

\* C9: generate() terminates: once the worklist holds a node it becomes
\* empty again.
C9_GenerateTerminates == (~Idle) ~> Idle

\* generate() holds two open decision nodes in its worklist
C9_Witness == Len(nonpayoff) = 2

\* C10: whenever a game is marked solved, every decision node of its tree has
\* a decision that indexes its children and the value of that child.
C10_SolvedConsistent ==
    Idle => \A g \in 1..Len(games) :
                games[g].solved => \A n \in ActionNodes(g) : Consistent(n)

====
